---- MODULE Spec2Model ----
(***************************************************************************)
(* Task state and dependency engine of ohno (ohno_mcp/db.py, server.py).   *)
(*                                                                         *)
(* The store is the three tables tasks, task_activity, task_dependencies.  *)
(* Every engine operation opens a connection, runs one transaction and     *)
(* closes; it is written here as a function from a store (and the          *)
(* timestamp it reads from datetime.now()) to its return value and the     *)
(* store it leaves, and the action of the same operation applies that      *)
(* function to the current store.                                          *)
(*                                                                         *)
(* Left out of the rows: the columns no operation reads back (updated_at,  *)
(* created_by, actor, the created_at of a dependency edge, task_files).    *)
(***************************************************************************)
EXTENDS Integers, Sequences, FiniteSets, TLC

\* ---------------------------------------------------------------- bounds
\* number of timestamps handed out in one run
MaxClock == 2
\* number of task ids the store may mention before create_task stops
MaxTasks == 2
\* number of sync attempts of the watcher that fail in one run
MaxFailures == 1

\* ------------------------------------------------------------- constants
NULL == "NULL"
None == <<>>
RetryLimit == 100
MinEntries == 5
KeepRecent == 3
SuggestLimit == 20
InProgressLimit == 10
GetTaskLimit == 1000
RecentLimit == 10
\* timestamps to the calendar day: the granularity of the [:10] date prefix
TicksPerDay == 2

Statuses == {"todo", "in_progress", "review", "done", "blocked", "archived"}
ToolStatuses == {"todo", "in_progress", "review", "done", "blocked"}
DepTypes == {"blocks", "requires", "relates_to"}

\* inputs the callers draw from
Titles == {"A"}
Stories == {NULL, "s0"}
Reasons == {"", "waiting"}
Notes == {NULL, "n"}
ExtIds == {1, 2}
UnknownIds == {3}
NoTask == 0

\* stories and epics are owned by the external producer and read-only here:
\* the priority of the epic of a story
EpicPriorityOf(story) ==
    CASE story = "s0" -> "P0"
      [] story = "s1" -> "P1"
      [] story = "s2" -> "P2"
      [] story = "s3" -> "P3"
      [] OTHER -> NULL

ExtStory(t) == IF t = 1 THEN "s1" ELSE NULL

\* the three tables, the time of the last stamped write (the modification
\* time of tasks.db), the watcher thread of the CLI and the engine calls
\* that other processes are in the middle of
VARIABLES tasks, activity, deps, clock, watcher, inflight

vars == <<tasks, activity, deps, clock, watcher, inflight>>

\* no watcher was started; no call is in progress
NotWatching == [pc |-> "off"]
NoCalls == <<>>

Store == [tasks |-> tasks, activity |-> activity, deps |-> deps]

\* ------------------------------------------------------- identity generator
\* f"{title}|{story_id or ''}": the hashed content up to the timestamp; a
\* NULL story and an empty one give the same text, and a "|" inside the title
\* or the story is not told from the separator
Content(title, story) == title \o "|" \o (IF story = NULL THEN "" ELSE story)

\* sha256(...)[:8] read as a number: contents that differ get numbers that
\* differ (no hash collision among the contents that are drawn)
Sha256Prefix(content) ==
    CASE content = "A|" -> 0
      [] content = "B|" -> 1
      [] content = "A|s0" -> 2
      [] content = "B|s0" -> 3
      [] content = "A||" -> 4
      [] content = "A||s0" -> 5
      [] content = "A|||s0" -> 6

ContentCount == 10

\* task-{sha256(title|story|timestamp)[:8]}; the timestamp is an isoformat
\* text with no "|" in it, so it is told apart from what precedes it; the
\* collision suffix -k is the low part of the number
generate_task_id(title, story, timestamp) ==
    (1 + Sha256Prefix(Content(title, story)) + ContentCount * timestamp) * (RetryLimit + 1)

WithSuffix(base, counter) == base + counter

generate_activity_id(task_id, activity_type, timestamp) ==
    <<task_id, activity_type, timestamp>>

generate_dependency_id(task_id, depends_on_task_id) ==
    <<task_id, depends_on_task_id>>

\* ------------------------------------------------------------------ queries
TaskIds(S) == DOMAIN S.tasks
ActIds(S) == {S.activity[i].id : i \in 1..Len(S.activity)}
ActivityOf(S, t) == SelectSeq(S.activity, LAMBDA a : a.task_id = t)

\* variant: the unfinished dependencies of the dependencies count as well
get_blocking_dependencies_transitive(S, task_id) ==
    LET direct(x) == {e.depends_on_task_id : e \in
                        {d \in S.deps : d.task_id = x /\ d.depends_on_task_id \in TaskIds(S)}}
        unfinished(ids) == {y \in ids : S.tasks[y].status # "done"}
    IN  unfinished(direct(task_id)) \cup
        UNION {unfinished(direct(y)) : y \in direct(task_id)}

\* variant: an archived dependency no longer counts as unfinished
get_blocking_dependencies_archived_ok(S, task_id) ==
    {d.depends_on_task_id : d \in
        {e \in S.deps : /\ e.task_id = task_id
                        /\ e.depends_on_task_id \in DOMAIN S.tasks
                        /\ S.tasks[e.depends_on_task_id].status \notin {"done", "archived"}}}

\* SELECT d.depends_on_task_id FROM task_dependencies d JOIN tasks t
\*   ON d.depends_on_task_id = t.id WHERE d.task_id = ? AND t.status != 'done'
get_blocking_dependencies(S, task_id) ==
    {d.depends_on_task_id : d \in
        {e \in S.deps : /\ e.task_id = task_id
                        /\ e.depends_on_task_id \in TaskIds(S)
                        /\ S.tasks[e.depends_on_task_id].status # "done"}}

is_task_blocked_by_dependencies(S, task_id) ==
    Cardinality(get_blocking_dependencies(S, task_id)) > 0

\* ORDER BY e.priority, t.id: a NULL priority sorts first, then the text
PrioritySortKey(p) ==
    CASE p = NULL -> 0
      [] p = "P0" -> 1
      [] p = "P1" -> 2
      [] p = "P2" -> 3
      [] OTHER -> 4

QueryBefore(S, a, b) ==
    LET ka == PrioritySortKey(EpicPriorityOf(S.tasks[a].story_id))
        kb == PrioritySortKey(EpicPriorityOf(S.tasks[b].story_id))
    IN  \/ ka < kb
        \/ ka = kb /\ a < b

RECURSIVE OrderSeq(_, _)
OrderSeq(S, ids) ==
    IF ids = {} THEN <<>>
    ELSE LET m == CHOOSE x \in ids : \A y \in ids \ {x} : QueryBefore(S, x, y)
         IN  <<m>> \o OrderSeq(S, ids \ {m})

Take(s, n) == SubSeq(s, 1, IF n < Len(s) THEN n ELSE Len(s))

\* get_tasks(status=..., limit=...): the ids of the rows, in query order
get_tasks(S, status, limit) ==
    Take(OrderSeq(S, {t \in TaskIds(S) : status = NULL \/ S.tasks[t].status = status}),
         limit)

\* the number of rows the query returns before the row of task t
RowsBefore(S, t) == Cardinality({u \in TaskIds(S) : QueryBefore(S, u, t)})

\* get_task: the linear search of get_tasks(limit=1000) finds the row when
\* it is one of the first GetTaskLimit rows of the query
get_task(S, task_id) ==
    IF task_id \in TaskIds(S) /\ RowsBefore(S, task_id) < GetTaskLimit
    THEN task_id
    ELSE NoTask

priority_order(p) ==
    CASE p = "P0" -> 0
      [] p = "P1" -> 1
      [] p = "P2" -> 2
      [] p = "P3" -> 3
      [] OTHER -> 99

TaskRank(S, t) == priority_order(EpicPriorityOf(S.tasks[t].story_id))

\* variant: the candidates are not filtered by their dependencies
suggested_next_task_unfiltered(S) ==
    LET available_tasks == get_tasks(S, "todo", SuggestLimit)
    IN  IF Len(available_tasks) = 0 THEN NoTask
        ELSE LET i == CHOOSE j \in 1..Len(available_tasks) :
                        /\ \A k \in 1..Len(available_tasks) :
                              TaskRank(S, available_tasks[j]) <= TaskRank(S, available_tasks[k])
                        /\ \A k \in 1..(j - 1) :
                              TaskRank(S, available_tasks[k]) > TaskRank(S, available_tasks[j])
             IN  available_tasks[i]

\* variant: the first available candidate in query order, without the sort
suggested_next_task_query_order(S) ==
    LET next_tasks == get_tasks(S, "todo", SuggestLimit)
        available_tasks ==
            SelectSeq(next_tasks, LAMBDA t : ~is_task_blocked_by_dependencies(S, t))
    IN  IF Len(available_tasks) = 0 THEN NoTask ELSE available_tasks[1]

\* get_session_context().suggested_next_task: sorted(available_tasks,
\* key=rank)[0], the sort being stable
suggested_next_task(S) ==
    LET next_tasks == get_tasks(S, "todo", SuggestLimit)
        available_tasks ==
            SelectSeq(next_tasks, LAMBDA t : ~is_task_blocked_by_dependencies(S, t))
    IN  IF Len(available_tasks) = 0 THEN NoTask
        ELSE LET i == CHOOSE j \in 1..Len(available_tasks) :
                        /\ \A k \in 1..Len(available_tasks) :
                              TaskRank(S, available_tasks[j]) <= TaskRank(S, available_tasks[k])
                        /\ \A k \in 1..(j - 1) :
                              TaskRank(S, available_tasks[k]) > TaskRank(S, available_tasks[j])
             IN  available_tasks[i]

in_progress_tasks(S) == get_tasks(S, "in_progress", InProgressLimit)

\* variant: the suggestion is looked at before the work in progress
get_next_task_suggestion_first(S) ==
    IF suggested_next_task(S) # NoTask THEN get_task(S, suggested_next_task(S))
    ELSE IF Len(in_progress_tasks(S)) > 0 THEN get_task(S, in_progress_tasks(S)[1])
    ELSE NoTask

get_next_task(S) ==
    IF Len(in_progress_tasks(S)) > 0 THEN get_task(S, in_progress_tasks(S)[1])
    ELSE IF suggested_next_task(S) # NoTask THEN get_task(S, suggested_next_task(S))
    ELSE NoTask

\* ---------------------------------------------------------- return values
\* ok: the success flag (or "returned a value"); ret: the returned id or
\* text; store: the store after the call.  A description is the tuple of the
\* pieces the f-string joins, None for a NULL column
Done(ret, S) == [ok |-> TRUE, ret |-> ret, store |-> S]

\* the failure value; a transaction that was open is rolled back when the
\* connection closes, so the store is the one the call started from
Failed(S) == [ok |-> FALSE, ret |-> None, store |-> S]

ActivityRow(task_id, activity_type, description, old_value, new_value, now) ==
    [id |-> generate_activity_id(task_id, activity_type, now),
     task_id |-> task_id, activity_type |-> activity_type,
     description |-> description, old_value |-> old_value,
     new_value |-> new_value, created_at |-> now]

\* -------------------------------------------------------- project status
\* SELECT status, COUNT(*) FROM tasks GROUP BY status
StatusCount(S, status) ==
    Cardinality({t \in TaskIds(S) : S.tasks[t].status = status})

\* the five counts the loop over the groups keeps, and their sum as total
get_project_status(S) ==
    LET done == StatusCount(S, "done")
        in_progress == StatusCount(S, "in_progress")
        review == StatusCount(S, "review")
        blocked == StatusCount(S, "blocked")
        todo == StatusCount(S, "todo")
    IN  [done_tasks |-> done, in_progress_tasks |-> in_progress,
         review_tasks |-> review, blocked_tasks |-> blocked, todo_tasks |-> todo,
         total_tasks |-> done + in_progress + review + blocked + todo]

\* ------------------------------------------------------- session context
\* SELECT a.* FROM task_activity a JOIN tasks t ON a.task_id = t.id
\*   ORDER BY a.created_at DESC LIMIT 10
recent_activity(S) ==
    LET joined == SelectSeq(S.activity, LAMBDA a : a.task_id \in TaskIds(S))
        n == Len(joined)
    IN  Take([i \in 1..n |-> joined[n + 1 - i]], RecentLimit)

\* variant: the suggested task is claimed for the caller, set in progress
get_session_context_claims_task(S) ==
    LET ctx == [in_progress_tasks |-> in_progress_tasks(S),
                blocked_tasks |-> get_tasks(S, "blocked", InProgressLimit),
                recent_activity |-> recent_activity(S),
                suggested_next_task |-> suggested_next_task(S)]
    IN  Done(ctx,
             IF ctx.suggested_next_task = NoTask THEN S
             ELSE [S EXCEPT !.tasks =
                      [S.tasks EXCEPT ![ctx.suggested_next_task].status = "in_progress"]])

\* the SessionContext and the store the call leaves: the connections it
\* opens run SELECT statements only and are closed without a commit
get_session_context(S) ==
    LET ctx == [in_progress_tasks |-> in_progress_tasks(S),
                blocked_tasks |-> get_tasks(S, "blocked", InProgressLimit),
                recent_activity |-> recent_activity(S),
                suggested_next_task |-> suggested_next_task(S)]
    IN  Done(ctx, S)

\* get_next_task as a call: the context is fetched, then the task is read
get_next_task_call(S) ==
    LET c == get_session_context(S)
    IN  Done(get_next_task(c.store), c.store)

\* ---------------------------------------------------- activity compressor
\* now[:10] and created_at[:10]: the date a timestamp falls on
DateOf(timestamp) == timestamp \div TicksPerDay

OrText(v, default) == IF v = NULL THEN default ELSE v

\* "By type:" the number of rows of each activity type
TypeCounts(rows) ==
    LET typeOf(i) == OrText(rows[i].activity_type, "unknown")
    IN  [ty \in {typeOf(i) : i \in 1..Len(rows)} |->
            Cardinality({i \in 1..Len(rows) : typeOf(i) = ty})]

\* "Status history:" date, old and new value of every status_change row
StatusHistory(rows) ==
    LET sc == SelectSeq(rows, LAMBDA r : r.activity_type = "status_change")
    IN  [i \in 1..Len(sc) |->
            <<DateOf(sc[i].created_at), OrText(sc[i].old_value, "?"),
              OrText(sc[i].new_value, "?")>>]

\* "Recent notes:" the descriptions of the last three note rows
RecentNotes(rows) ==
    LET notes == SelectSeq(rows, LAMBDA r : r.activity_type = "note")
        n == Len(notes)
    IN  [i \in 1..(IF n < KeepRecent THEN n ELSE KeepRecent) |->
            notes[(IF n < KeepRecent THEN 0 ELSE n - KeepRecent) + i].description]

SummaryText(rows, now) ==
    <<DateOf(now), Len(rows), TypeCounts(rows), StatusHistory(rows), RecentNotes(rows)>>

\* variant: the raw rows are pruned whether or not delete_raw was asked for
summarize_task_activity_always_prunes(S, task_id, delete_raw, min_entries, now) ==
    LET rows == ActivityOf(S, task_id)
        n == Len(rows)
    IN  IF n < min_entries THEN Failed(S)
        ELSE LET keep_ids == {rows[i].id : i \in (n - KeepRecent + 1)..n}
                 tk == IF task_id \in TaskIds(S)
                       THEN [S.tasks EXCEPT ![task_id].activity_summary =
                                                SummaryText(rows, now)]
                       ELSE S.tasks
                 act == IF n >= KeepRecent
                        THEN SelectSeq(S.activity, LAMBDA a :
                                 ~(a.task_id = task_id /\ a.id \notin keep_ids))
                        ELSE S.activity
             IN  Done(SummaryText(rows, now),
                      [S EXCEPT !.tasks = tk, !.activity = act])

\* variant: the threshold test is off by one
summarize_task_activity_threshold(S, task_id, delete_raw, min_entries, now) ==
    LET rows == ActivityOf(S, task_id)
        n == Len(rows)
    IN  IF n <= min_entries THEN Failed(S)
        ELSE LET keep_ids == {rows[i].id : i \in (n - KeepRecent + 1)..n}
                 tk == IF task_id \in TaskIds(S)
                       THEN [S.tasks EXCEPT ![task_id].activity_summary =
                                                SummaryText(rows, now)]
                       ELSE S.tasks
                 act == IF delete_raw /\ n >= KeepRecent
                        THEN SelectSeq(S.activity, LAMBDA a :
                                 ~(a.task_id = task_id /\ a.id \notin keep_ids))
                        ELSE S.activity
             IN  Done(SummaryText(rows, now),
                      [S EXCEPT !.tasks = tk, !.activity = act])

\* variant: pruning deletes by position in the table, not by task
summarize_task_activity_prunes_all(S, task_id, delete_raw, min_entries, now) ==
    LET rows == ActivityOf(S, task_id)
        n == Len(rows)
    IN  IF n < min_entries THEN Failed(S)
        ELSE LET keep_ids == {rows[i].id : i \in (n - KeepRecent + 1)..n}
                 tk == IF task_id \in TaskIds(S)
                       THEN [S.tasks EXCEPT ![task_id].activity_summary =
                                                SummaryText(rows, now)]
                       ELSE S.tasks
                 act == IF delete_raw /\ n >= KeepRecent
                        THEN SelectSeq(S.activity, LAMBDA a : a.id \in keep_ids)
                        ELSE S.activity
             IN  Done(SummaryText(rows, now),
                      [S EXCEPT !.tasks = tk, !.activity = act])

summarize_task_activity(S, task_id, delete_raw, min_entries, now) ==
    LET rows == ActivityOf(S, task_id)
        n == Len(rows)
    IN  IF n < min_entries THEN Failed(S)
        ELSE LET keep_ids == {rows[i].id : i \in (n - KeepRecent + 1)..n}
                 tk == IF task_id \in TaskIds(S)
                       THEN [S.tasks EXCEPT ![task_id].activity_summary =
                                                SummaryText(rows, now)]
                       ELSE S.tasks
                 act == IF delete_raw /\ n >= KeepRecent
                        THEN SelectSeq(S.activity, LAMBDA a :
                                 ~(a.task_id = task_id /\ a.id \notin keep_ids))
                        ELSE S.activity
             IN  Done(SummaryText(rows, now),
                      [S EXCEPT !.tasks = tk, !.activity = act])

\* ------------------------------------------------------------ status machine
\* variant: every statement commits on its own, so the UPDATE stays when the
\* INSERT of the activity row fails
update_task_status_autocommit(S, task_id, status, notes, now) ==
    IF task_id \notin TaskIds(S) THEN Failed(S)
    ELSE IF generate_activity_id(task_id, "status_change", now) \in ActIds(S)
    THEN Failed([S EXCEPT !.tasks = [S.tasks EXCEPT ![task_id].status = status]])
    ELSE LET S1 == [S EXCEPT
                      !.tasks = [S.tasks EXCEPT
                          ![task_id].status = status,
                          ![task_id].handoff_notes = IF notes # NULL THEN notes ELSE @],
                      !.activity = Append(S.activity,
                          ActivityRow(task_id, "status_change", None,
                                      S.tasks[task_id].status, status, now))]
         IN  IF status \in {"done", "archived"}
             THEN Done(None, summarize_task_activity(S1, task_id, FALSE, MinEntries, now).store)
             ELSE Done(None, S1)

\* variant: finishing a task prunes its history as well as summarizing it
update_task_status_prunes(S, task_id, status, notes, now) ==
    IF task_id \notin TaskIds(S) THEN Failed(S)
    ELSE IF generate_activity_id(task_id, "status_change", now) \in ActIds(S)
    THEN Failed(S)
    ELSE LET S1 == [S EXCEPT
                      !.tasks = [S.tasks EXCEPT
                          ![task_id].status = status,
                          ![task_id].handoff_notes = IF notes # NULL THEN notes ELSE @],
                      !.activity = Append(S.activity,
                          ActivityRow(task_id, "status_change", None,
                                      S.tasks[task_id].status, status, now))]
         IN  IF status \in {"done", "archived"}
             THEN Done(None, summarize_task_activity(S1, task_id, TRUE, MinEntries, now).store)
             ELSE Done(None, S1)

\* variant: a task with unfinished dependencies cannot be started
update_task_status_gated(S, task_id, status, notes, now) ==
    IF task_id \notin TaskIds(S) THEN Failed(S)
    ELSE IF status = "in_progress" /\ is_task_blocked_by_dependencies(S, task_id)
    THEN Failed(S)
    ELSE IF generate_activity_id(task_id, "status_change", now) \in ActIds(S)
    THEN Failed(S)
    ELSE LET S1 == [S EXCEPT
                      !.tasks = [S.tasks EXCEPT
                          ![task_id].status = status,
                          ![task_id].handoff_notes = IF notes # NULL THEN notes ELSE @],
                      !.activity = Append(S.activity,
                          ActivityRow(task_id, "status_change", None,
                                      S.tasks[task_id].status, status, now))]
         IN  IF status \in {"done", "archived"}
             THEN Done(None, summarize_task_activity(S1, task_id, FALSE, MinEntries, now).store)
             ELSE Done(None, S1)

update_task_status(S, task_id, status, notes, now) ==
    IF task_id \notin TaskIds(S) THEN Failed(S)
    ELSE IF generate_activity_id(task_id, "status_change", now) \in ActIds(S)
    THEN Failed(S)
    ELSE LET S1 == [S EXCEPT
                      !.tasks = [S.tasks EXCEPT
                          ![task_id].status = status,
                          ![task_id].handoff_notes = IF notes # NULL THEN notes ELSE @],
                      !.activity = Append(S.activity,
                          ActivityRow(task_id, "status_change", None,
                                      S.tasks[task_id].status, status, now))]
         IN  IF status \in {"done", "archived"}
             THEN Done(None, summarize_task_activity(S1, task_id, FALSE, MinEntries, now).store)
             ELSE Done(None, S1)

set_blocker(S, task_id, reason, now) ==
    IF task_id \notin TaskIds(S) THEN Failed(S)
    ELSE IF generate_activity_id(task_id, "status_change", now) \in ActIds(S)
    THEN Failed(S)
    ELSE Done(None,
           [S EXCEPT
              !.tasks = [S.tasks EXCEPT ![task_id].status = "blocked",
                                        ![task_id].blockers = reason],
              !.activity = Append(S.activity,
                  ActivityRow(task_id, "status_change", <<"Blocked: ", reason>>,
                              S.tasks[task_id].status, "blocked", now))])

\* variant: the UPDATE sets the status and leaves the blockers column
resolve_blocker_keeps_reason(S, task_id, now) ==
    IF generate_activity_id(task_id, "status_change", now) \in ActIds(S)
    THEN Failed(S)
    ELSE Done(None,
           [S EXCEPT
              !.tasks = IF task_id \in TaskIds(S)
                        THEN [S.tasks EXCEPT ![task_id].status = "in_progress"]
                        ELSE S.tasks,
              !.activity = Append(S.activity,
                  ActivityRow(task_id, "status_change", <<"Blocker resolved">>,
                              "blocked", "in_progress", now))])

\* no existence check: the UPDATE matches no row for an unknown id and the
\* activity row is inserted all the same, with old_value always 'blocked'
resolve_blocker(S, task_id, now) ==
    IF generate_activity_id(task_id, "status_change", now) \in ActIds(S)
    THEN Failed(S)
    ELSE Done(None,
           [S EXCEPT
              !.tasks = IF task_id \in TaskIds(S)
                        THEN [S.tasks EXCEPT ![task_id].status = "in_progress",
                                             ![task_id].blockers = NULL]
                        ELSE S.tasks,
              !.activity = Append(S.activity,
                  ActivityRow(task_id, "status_change", <<"Blocker resolved">>,
                              "blocked", "in_progress", now))])

\* variant: archiving drops the edges of the task, as a hard delete does
archive_task_drops_edges(S, task_id, reason, now) ==
    IF task_id \notin TaskIds(S) THEN Failed(S)
    ELSE IF generate_activity_id(task_id, "status_change", now) \in ActIds(S)
    THEN Failed(S)
    ELSE Done(None,
           [S EXCEPT
              !.tasks = [S.tasks EXCEPT ![task_id].status = "archived"],
              !.deps = {d \in S.deps : d.task_id # task_id},
              !.activity = Append(S.activity,
                  ActivityRow(task_id, "status_change",
                              IF reason # "" THEN <<"Task archived", ": ", reason>>
                              ELSE <<"Task archived">>,
                              S.tasks[task_id].status, "archived", now))])

archive_task(S, task_id, reason, now) ==
    IF task_id \notin TaskIds(S) THEN Failed(S)
    ELSE IF generate_activity_id(task_id, "status_change", now) \in ActIds(S)
    THEN Failed(S)
    ELSE Done(None,
           [S EXCEPT
              !.tasks = [S.tasks EXCEPT ![task_id].status = "archived"],
              !.activity = Append(S.activity,
                  ActivityRow(task_id, "status_change",
                              IF reason # "" THEN <<"Task archived", ": ", reason>>
                              ELSE <<"Task archived">>,
                              S.tasks[task_id].status, "archived", now))])

\* ------------------------------------------------------------ entity store
NewTask(title, story) ==
    [status |-> "todo", blockers |-> NULL, story_id |-> story,
     handoff_notes |-> NULL, activity_summary |-> None,
     progress_percent |-> None, context_summary |-> NULL,
     title |-> title, description |-> NULL, task_type |-> "feature",
     estimate_hours |-> None]

\* a row written by the external producer: the extended columns are NULL
ProducerTask(t) ==
    [status |-> "todo", blockers |-> NULL, story_id |-> ExtStory(t),
     handoff_notes |-> NULL, activity_summary |-> None,
     progress_percent |-> None, context_summary |-> NULL,
     title |-> "ext", description |-> NULL, task_type |-> "feature",
     estimate_hours |-> None]

\* while the candidate id exists: base-1, base-2, ...; gives up once the
\* counter has passed RetryLimit
FreeCounters(S, base) ==
    {k \in 0..(RetryLimit - 1) : WithSuffix(base, k) \notin TaskIds(S)}

\* variant: the task row is written without its 'created' activity row
create_task_unlogged(S, title, story, now) ==
    LET base == generate_task_id(title, story, now)
    IN  IF FreeCounters(S, base) = {} THEN Failed(S)
        ELSE LET k == CHOOSE c \in FreeCounters(S, base) :
                          \A c2 \in FreeCounters(S, base) : c <= c2
                 task_id == WithSuffix(base, k)
             IN  Done(task_id,
                    [S EXCEPT
                       !.tasks = [t \in TaskIds(S) \cup {task_id} |->
                                     IF t = task_id THEN NewTask(title, story)
                                     ELSE S.tasks[t]]])

create_task(S, title, story, now) ==
    LET base == generate_task_id(title, story, now)
    IN  IF FreeCounters(S, base) = {} THEN Failed(S)
        ELSE LET k == CHOOSE c \in FreeCounters(S, base) :
                          \A c2 \in FreeCounters(S, base) : c <= c2
                 task_id == WithSuffix(base, k)
             IN  IF generate_activity_id(task_id, "created", now) \in ActIds(S)
                 THEN Failed(S)
                 ELSE Done(task_id,
                        [S EXCEPT
                           !.tasks = [t \in TaskIds(S) \cup {task_id} |->
                                         IF t = task_id THEN NewTask(title, story)
                                         ELSE S.tasks[t]],
                           !.activity = Append(S.activity,
                               ActivityRow(task_id, "created", <<"Task created: ", title>>,
                                           NULL, NULL, now))])

\* deletes the activity rows and the edges whose task_id is the task, then
\* the task row; success is "some row was deleted"
delete_task(S, task_id) ==
    LET act == SelectSeq(S.activity, LAMBDA a : a.task_id # task_id)
        dp == {d \in S.deps : d.task_id # task_id}
        S1 == [tasks |-> [t \in TaskIds(S) \ {task_id} |-> S.tasks[t]],
               activity |-> act, deps |-> dp]
    IN  IF S1 # S THEN Done(None, S1) ELSE Failed(S)

add_task_activity(S, task_id, activity_type, description, now) ==
    IF generate_activity_id(task_id, activity_type, now) \in ActIds(S)
    THEN Failed(S)
    ELSE Done(None,
           [S EXCEPT !.activity = Append(S.activity,
               ActivityRow(task_id, activity_type, <<description>>, NULL, NULL, now))])

\* one UPDATE, no activity row; total_changes stays 0 for an unknown id
set_handoff_notes(S, task_id, notes) ==
    IF task_id \notin TaskIds(S) THEN Failed(S)
    ELSE Done(None, [S EXCEPT !.tasks = [S.tasks EXCEPT ![task_id].handoff_notes = notes]])

\* "Updated title to 'x', description, ...": the pieces of the description;
\* a piece is listed when the value is truthy
UpdateChanges(title, description, task_type, estimate_hours) ==
    (IF title \notin {NULL, ""} THEN <<<<"title", title>>>> ELSE <<>>)
    \o (IF description \notin {NULL, ""} THEN <<<<"description">>>> ELSE <<>>)
    \o (IF task_type \notin {NULL, ""} THEN <<<<"type", task_type>>>> ELSE <<>>)
    \o (IF estimate_hours \notin {None, <<0>>} THEN <<<<"estimate", estimate_hours>>>> ELSE <<>>)

\* variant: a field that was not supplied is written as NULL
update_task_overwrites_unsupplied(S, task_id, title, description, task_type, estimate_hours, now) ==
    IF title = NULL /\ description = NULL /\ task_type = NULL /\ estimate_hours = None
    THEN Done(None, S)
    ELSE IF generate_activity_id(task_id, "updated", now) \in ActIds(S) THEN Failed(S)
    ELSE Done(None,
           [S EXCEPT
              !.tasks = IF task_id \in TaskIds(S)
                        THEN [S.tasks EXCEPT
                                ![task_id].title = title,
                                ![task_id].description = description,
                                ![task_id].task_type = task_type,
                                ![task_id].estimate_hours = estimate_hours]
                        ELSE S.tasks,
              !.activity = Append(S.activity,
                  ActivityRow(task_id, "updated",
                      <<"Updated ", UpdateChanges(title, description, task_type, estimate_hours)>>,
                      NULL, NULL, now))])

\* no existence check: the UPDATE matches no row for an unknown id and the
\* 'updated' activity row is inserted all the same; an argument is supplied
\* when it is not None (NULL here, None for the number)
update_task(S, task_id, title, description, task_type, estimate_hours, now) ==
    IF title = NULL /\ description = NULL /\ task_type = NULL /\ estimate_hours = None
    THEN Done(None, S)
    ELSE IF generate_activity_id(task_id, "updated", now) \in ActIds(S) THEN Failed(S)
    ELSE Done(None,
           [S EXCEPT
              !.tasks = IF task_id \in TaskIds(S)
                        THEN [S.tasks EXCEPT
                                ![task_id].title = IF title # NULL THEN title ELSE @,
                                ![task_id].description =
                                    IF description # NULL THEN description ELSE @,
                                ![task_id].task_type =
                                    IF task_type # NULL THEN task_type ELSE @,
                                ![task_id].estimate_hours =
                                    IF estimate_hours # None THEN estimate_hours ELSE @]
                        ELSE S.tasks,
              !.activity = Append(S.activity,
                  ActivityRow(task_id, "updated",
                      <<"Updated ", UpdateChanges(title, description, task_type, estimate_hours)>>,
                      NULL, NULL, now))])

\* the UPDATE matches no row for an unknown id: total_changes stays 0; the
\* INTEGER column holds <<p>>, or None while it is NULL
update_task_progress(S, task_id, progress_percent, context_summary) ==
    IF task_id \notin TaskIds(S) THEN Failed(S)
    ELSE Done(None,
           [S EXCEPT !.tasks = [S.tasks EXCEPT
               ![task_id].progress_percent = <<progress_percent>>,
               ![task_id].context_summary =
                   IF context_summary \notin {NULL, ""} THEN context_summary ELSE @]])

\* ------------------------------------------------------ dependency graph
\* variant: the duplicate check also compares the dependency_type
add_dependency_typed_duplicate(S, task_id, depends_on_task_id, dependency_type) ==
    IF task_id \notin TaskIds(S) \/ depends_on_task_id \notin TaskIds(S)
    THEN Failed(S)
    ELSE IF task_id = depends_on_task_id THEN Failed(S)
    ELSE LET existing == {d \in S.deps : /\ d.task_id = task_id
                                          /\ d.depends_on_task_id = depends_on_task_id
                                          /\ d.dependency_type = dependency_type}
             dep_id == generate_dependency_id(task_id, depends_on_task_id)
         IN  IF existing # {} THEN Done((CHOOSE d \in existing : TRUE).id, S)
             ELSE IF dep_id \in {d.id : d \in S.deps} THEN Failed(S)
             ELSE Done(dep_id,
                    [S EXCEPT !.deps = S.deps \cup
                        {[id |-> dep_id, task_id |-> task_id,
                          depends_on_task_id |-> depends_on_task_id,
                          dependency_type |-> dependency_type]}])

\* variant: the self-dependency test is missing
add_dependency_no_self_check(S, task_id, depends_on_task_id, dependency_type) ==
    IF task_id \notin TaskIds(S) \/ depends_on_task_id \notin TaskIds(S)
    THEN Failed(S)
    ELSE LET existing == {d \in S.deps : /\ d.task_id = task_id
                                          /\ d.depends_on_task_id = depends_on_task_id}
             dep_id == generate_dependency_id(task_id, depends_on_task_id)
         IN  IF existing # {} THEN Done((CHOOSE d \in existing : TRUE).id, S)
             ELSE IF dep_id \in {d.id : d \in S.deps} THEN Failed(S)
             ELSE Done(dep_id,
                    [S EXCEPT !.deps = S.deps \cup
                        {[id |-> dep_id, task_id |-> task_id,
                          depends_on_task_id |-> depends_on_task_id,
                          dependency_type |-> dependency_type]}])

\* variant: only the depending task is looked up
add_dependency_one_lookup(S, task_id, depends_on_task_id, dependency_type) ==
    IF task_id \notin TaskIds(S) THEN Failed(S)
    ELSE IF task_id = depends_on_task_id THEN Failed(S)
    ELSE LET existing == {d \in S.deps : /\ d.task_id = task_id
                                          /\ d.depends_on_task_id = depends_on_task_id}
             dep_id == generate_dependency_id(task_id, depends_on_task_id)
         IN  IF existing # {} THEN Done((CHOOSE d \in existing : TRUE).id, S)
             ELSE IF dep_id \in {d.id : d \in S.deps} THEN Failed(S)
             ELSE Done(dep_id,
                    [S EXCEPT !.deps = S.deps \cup
                        {[id |-> dep_id, task_id |-> task_id,
                          depends_on_task_id |-> depends_on_task_id,
                          dependency_type |-> dependency_type]}])

\* variant: an edge that would close a cycle of two tasks is refused
add_dependency_acyclic(S, task_id, depends_on_task_id, dependency_type) ==
    IF task_id \notin TaskIds(S) \/ depends_on_task_id \notin TaskIds(S)
    THEN Failed(S)
    ELSE IF task_id = depends_on_task_id THEN Failed(S)
    ELSE IF \E d \in S.deps : /\ d.task_id = depends_on_task_id
                               /\ d.depends_on_task_id = task_id
    THEN Failed(S)
    ELSE LET existing == {d \in S.deps : /\ d.task_id = task_id
                                          /\ d.depends_on_task_id = depends_on_task_id}
             dep_id == generate_dependency_id(task_id, depends_on_task_id)
         IN  IF existing # {} THEN Done((CHOOSE d \in existing : TRUE).id, S)
             ELSE IF dep_id \in {d.id : d \in S.deps} THEN Failed(S)
             ELSE Done(dep_id,
                    [S EXCEPT !.deps = S.deps \cup
                        {[id |-> dep_id, task_id |-> task_id,
                          depends_on_task_id |-> depends_on_task_id,
                          dependency_type |-> dependency_type]}])

add_dependency(S, task_id, depends_on_task_id, dependency_type) ==
    IF task_id \notin TaskIds(S) \/ depends_on_task_id \notin TaskIds(S)
    THEN Failed(S)
    ELSE IF task_id = depends_on_task_id THEN Failed(S)
    ELSE LET existing == {d \in S.deps : /\ d.task_id = task_id
                                          /\ d.depends_on_task_id = depends_on_task_id}
             dep_id == generate_dependency_id(task_id, depends_on_task_id)
         IN  IF existing # {} THEN Done((CHOOSE d \in existing : TRUE).id, S)
             ELSE IF dep_id \in {d.id : d \in S.deps} THEN Failed(S)
             ELSE Done(dep_id,
                    [S EXCEPT !.deps = S.deps \cup
                        {[id |-> dep_id, task_id |-> task_id,
                          depends_on_task_id |-> depends_on_task_id,
                          dependency_type |-> dependency_type]}])

remove_dependency(S, task_id, depends_on_task_id) ==
    LET gone == {d \in S.deps : /\ d.task_id = task_id
                                  /\ d.depends_on_task_id = depends_on_task_id}
    IN  IF gone # {} THEN Done(None, [S EXCEPT !.deps = S.deps \ gone])
        ELSE Failed(S)

\* ------------------------------------------------------------ tool layer
tool_update_task_status(S, task_id, status, notes, now) ==
    IF status \notin ToolStatuses THEN Failed(S)
    ELSE update_task_status(S, task_id, status, notes, now)

\* variant: the range test lets 101 and above through
tool_update_task_progress_no_upper_bound(S, task_id, progress_percent, context_summary) ==
    IF ~(0 <= progress_percent) THEN Failed(S)
    ELSE update_task_progress(S, task_id, progress_percent, context_summary)

tool_update_task_progress(S, task_id, progress_percent, context_summary) ==
    IF ~(0 <= progress_percent /\ progress_percent <= 100) THEN Failed(S)
    ELSE update_task_progress(S, task_id, progress_percent, context_summary)

\* "if dep_id:" the engine's None becomes the error result
tool_add_dependency(S, task_id, depends_on_task_id, dependency_type) ==
    IF dependency_type \notin DepTypes THEN Failed(S)
    ELSE add_dependency(S, task_id, depends_on_task_id, dependency_type)

\* ------------------------------------------------------------------ actions
Init ==
    /\ \E ids \in SUBSET ExtIds : tasks = [t \in ids |-> ProducerTask(t)]
    /\ activity = <<>>
    /\ deps = {}
    /\ clock = 0
    /\ watcher = NotWatching
    /\ inflight = NoCalls

\* ids a caller may pass: rows it can see, the producer's ids, and one that
\* never existed
ArgIds == TaskIds(Store) \cup ExtIds \cup UnknownIds

\* every id some row of the store mentions
KnownIds ==
    TaskIds(Store) \cup {d.task_id : d \in deps} \cup {d.depends_on_task_id : d \in deps}
        \cup {activity[i].task_id : i \in 1..Len(activity)}

\* the timestamp the next datetime.now() returns: later than every stored one
Now == clock + 1

Commit(r) ==
    /\ r.store # Store
    /\ tasks' = r.store.tasks
    /\ activity' = r.store.activity
    /\ deps' = r.store.deps

\* an operation that stamps what it writes with the timestamp it read
Stamped(r) ==
    /\ clock < MaxClock
    /\ Commit(r)
    /\ clock' = Now
    /\ UNCHANGED <<watcher, inflight>>

Unstamped(r) ==
    /\ Commit(r)
    /\ UNCHANGED <<clock, watcher, inflight>>

UpdateTaskStatus ==
    \E t \in ArgIds, s \in Statuses :
        Stamped(update_task_status(Store, t, s, NULL, Now))

ToolUpdateTaskStatus ==
    \E t \in ArgIds, s \in Statuses \cup {"bogus"} :
        Stamped(tool_update_task_status(Store, t, s, NULL, Now))

SetBlocker ==
    \E t \in ArgIds, r \in Reasons : Stamped(set_blocker(Store, t, r, Now))

ResolveBlocker ==
    \E t \in ArgIds : Stamped(resolve_blocker(Store, t, Now))

ArchiveTask ==
    \E t \in ArgIds : Stamped(archive_task(Store, t, "", Now))

CreateTask ==
    /\ Cardinality(KnownIds) < MaxTasks
    /\ \E ti \in Titles, st \in Stories : Stamped(create_task(Store, ti, st, Now))

DeleteTask ==
    \E t \in ArgIds : Unstamped(delete_task(Store, t))

AddTaskActivity ==
    \E t \in ArgIds, ty \in {"note"} :
        Stamped(add_task_activity(Store, t, ty, "text", Now))

AddDependency ==
    \E a \in ArgIds, b \in ArgIds, ty \in {"blocks", "relates_to"} :
        Unstamped(add_dependency(Store, a, b, ty))

RemoveDependency ==
    \E a \in ArgIds, b \in ArgIds : Unstamped(remove_dependency(Store, a, b))

Next ==
    \/ UpdateTaskStatus
    \/ ToolUpdateTaskStatus
    \/ SetBlocker
    \/ ResolveBlocker
    \/ ArchiveTask
    \/ CreateTask
    \/ DeleteTask
    \/ AddTaskActivity
    \/ AddDependency
    \/ RemoveDependency

Spec == Init /\ [][Next]_vars

\* ------------------------------------------------------- the tool calls
\* what a client sends: valid and invalid statuses, percentages and types
StatusArgs == ToolStatuses \cup {"archived", "bogus", ""}
ProgressArgs == {-1, 0, 100, 101}
DepTypeArgs == {"requires", "bogus", ""}

ToolUpdateTaskProgress ==
    \E t \in ArgIds, p \in ProgressArgs :
        Unstamped(tool_update_task_progress(Store, t, p, NULL))

ToolAddDependency ==
    \E a \in ArgIds, b \in ArgIds, ty \in DepTypeArgs :
        Unstamped(tool_add_dependency(Store, a, b, ty))

ToolsNext ==
    \/ ToolUpdateTaskStatus
    \/ ToolUpdateTaskProgress
    \/ ToolAddDependency

SpecTools == Init /\ [][ToolsNext]_vars

\* ------------------------------------------------- the field updates
\* what a caller of the engine passes: any integer, any subset of the fields
EngineProgressArgs == {-1, 100, 150}

UpdateArgs ==
    {[title |-> "B", description |-> NULL, task_type |-> NULL, estimate_hours |-> None],
     [title |-> NULL, description |-> "d", task_type |-> "bug", estimate_hours |-> <<0>>],
     [title |-> "B", description |-> "d", task_type |-> "bug", estimate_hours |-> <<2>>]}

UpdateTaskProgress ==
    \E t \in ArgIds, p \in EngineProgressArgs :
        Unstamped(update_task_progress(Store, t, p, NULL))

SetHandoffNotes ==
    \E t \in ArgIds : Unstamped(set_handoff_notes(Store, t, "n"))

UpdateTask ==
    \E t \in ArgIds, u \in UpdateArgs :
        Stamped(update_task(Store, t, u.title, u.description, u.task_type,
                            u.estimate_hours, Now))

FieldsNext ==
    \/ UpdateTaskProgress
    \/ SetHandoffNotes
    \/ UpdateTask

SpecFields == Init /\ [][FieldsNext]_vars

\* ------------------------------------------------- the write operations
\* the operations that write a task row and an activity row in one
\* transaction
WritesNext ==
    \/ UpdateTaskStatus
    \/ SetBlocker
    \/ ResolveBlocker
    \/ ArchiveTask
    \/ CreateTask
    \/ UpdateTask

SpecWrites == Init /\ [][WritesNext]_vars

\* --------------------------------------------- creations at one timestamp
\* callers create tasks of one title and story while datetime.now() returns
\* one value, so that every call generates the same base id; the task that
\* took the first suffix can be deleted again
CollideInit ==
    /\ tasks = <<>>
    /\ activity = <<>>
    /\ deps = {}
    /\ clock = 0
    /\ watcher = NotWatching
    /\ inflight = NoCalls

CollideBase == generate_task_id("A", NULL, clock)

CreateTaskSameInstant ==
    \E now \in {clock} : Unstamped(create_task(Store, "A", NULL, now))

DeleteFirstSuffix ==
    \E k \in {1} : Unstamped(delete_task(Store, WithSuffix(CollideBase, k)))

CollideNext ==
    \/ CreateTaskSameInstant
    \/ DeleteFirstSuffix

SpecCollide == CollideInit /\ [][CollideNext]_vars

\* ------------------------------------- a store with a history of activity
\* the calls an earlier session made, in order, on the producer's two tasks
EarlierCalls ==
    <<[op |-> "note", task |-> 1, arg |-> "text"],
      [op |-> "status", task |-> 1, arg |-> "in_progress"],
      [op |-> "note", task |-> 2, arg |-> "other"],
      [op |-> "note", task |-> 1, arg |-> "more"],
      [op |-> "status", task |-> 1, arg |-> "review"],
      [op |-> "note", task |-> 1, arg |-> "text"],
      [op |-> "note", task |-> 1, arg |-> "last"]>>

HistoryLens == {5, 6, 7}

ApplyCall(S, c, now) ==
    IF c.op = "note" THEN add_task_activity(S, c.task, "note", c.arg, now).store
    ELSE update_task_status(S, c.task, c.arg, NULL, now).store

\* the store after the first k earlier calls, the last of them at timestamp 0
RECURSIVE Replay(_, _, _)
Replay(S, i, k) ==
    IF i > k THEN S ELSE Replay(ApplyCall(S, EarlierCalls[i], i - k), i + 1, k)

HistoryInit ==
    /\ \E k \in HistoryLens :
          LET S == Replay([tasks |-> [t \in ExtIds |-> ProducerTask(t)],
                           activity |-> <<>>, deps |-> {}], 1, k)
          IN  /\ tasks = S.tasks
              /\ activity = S.activity
              /\ deps = S.deps
    /\ clock = 0
    /\ watcher = NotWatching
    /\ inflight = NoCalls

\* the timestamp is read for the date line of the summary only
SummarizeTaskActivity ==
    \E t \in ArgIds, delete_raw \in BOOLEAN :
        Unstamped(summarize_task_activity(Store, t, delete_raw, MinEntries, Now))

HistoryNext ==
    \/ UpdateTaskStatus
    \/ ArchiveTask
    \/ AddTaskActivity
    \/ SummarizeTaskActivity

SpecHistory == HistoryInit /\ [][HistoryNext]_vars

\* the history is added to, compressed and deleted
LogNext ==
    \/ AddTaskActivity
    \/ SummarizeTaskActivity
    \/ DeleteTask

SpecLog == HistoryInit /\ [][LogNext]_vars

\* ------------------------------------- a backlog longer than a fetch limit
\* the producer has written more todo tasks than get_session_context
\* fetches as candidates: unprioritised ones, which the query orders first,
\* and after them one task under a P0 epic; a last task is being worked on.
\* In one of the two stores every unprioritised task depends on that one.
QueueIds == 1..(SuggestLimit + 2)
UrgentId == SuggestLimit + 1
BusyId == SuggestLimit + 2

QueueTask(t) ==
    [ProducerTask(t) EXCEPT
        !.story_id = IF t = UrgentId THEN "s0" ELSE NULL,
        !.status = IF t = BusyId THEN "in_progress" ELSE "todo"]

RECURSIVE AllDependOn(_, _, _)
AllDependOn(S, n, b) ==
    IF n = 0 THEN S
    ELSE AllDependOn(add_dependency(S, n, b, "blocks").store, n - 1, b)

QueueInit ==
    /\ \E waiting \in BOOLEAN :
          LET S0 == [tasks |-> [t \in QueueIds |-> QueueTask(t)],
                     activity |-> <<>>, deps |-> {}]
              S == IF waiting THEN AllDependOn(S0, SuggestLimit, BusyId) ELSE S0
          IN  /\ tasks = S.tasks
              /\ activity = S.activity
              /\ deps = S.deps
    /\ clock = 0
    /\ watcher = NotWatching
    /\ inflight = NoCalls

QueueUpdateTaskStatus ==
    \E t \in TaskIds(Store), s \in {"done", "todo"} :
        Stamped(update_task_status(Store, t, s, NULL, Now))

QueueRemoveDependency ==
    \E a \in {1, 2} : Unstamped(remove_dependency(Store, a, BusyId))

QueueNext ==
    \/ QueueUpdateTaskStatus
    \/ QueueRemoveDependency

SpecQueue == QueueInit /\ [][QueueNext]_vars

\* ------------------------------------- a store larger than get_task reads
\* one row more than the limit get_task passes to get_tasks, all of them
\* finished work of the producer without a story; callers keep working on
\* the first two and the last two rows
LargeIds == 1..(GetTaskLimit + 1)
LastId == GetTaskLimit + 1
LargeArgs == {1, 2, GetTaskLimit, LastId}

LargeTask(t) == [ProducerTask(t) EXCEPT !.story_id = NULL, !.status = "done"]

LargeInit ==
    /\ tasks = [t \in LargeIds |-> LargeTask(t)]
    /\ activity = <<>>
    /\ deps = {}
    /\ clock = 0
    /\ watcher = NotWatching
    /\ inflight = NoCalls

LargeUpdateTaskStatus ==
    \E t \in LargeArgs, s \in {"todo", "in_progress", "done"} :
        Stamped(update_task_status(Store, t, s, NULL, Now))

LargeNext == LargeUpdateTaskStatus

SpecLarge == LargeInit /\ [][LargeNext]_vars

\* ------------------------------------------------- two processes, one file
\* Two processes open tasks.db and call the engine at the same time. Every
\* call opens a connection of its own; a SELECT reads what is committed, the
\* statements from the first write to the commit hold the writer lock of the
\* file and are one step, and so is a call of summarize_task_activity.
\* inflight[p] is the call process p is in: its arguments, the statement it
\* is at, what it read, and at the end what it returned. clock is the latest
\* time some call read; two calls may read the same instant.
Procs == {1, 2}

Idle(p) == p \notin DOMAIN inflight

At(p, op, pc) ==
    /\ p \in DOMAIN inflight
    /\ inflight[p].op = op
    /\ inflight[p].pc = pc

Goto(p, c) == inflight' = (p :> c) @@ inflight

Returned(c, ok, ret) == [c EXCEPT !.pc = "returned", !.ok = ok, !.ret = ret]

ProcsInit ==
    /\ tasks = [t \in ExtIds |-> ProducerTask(t)]
    /\ activity = <<>>
    /\ deps = {}
    /\ clock = 0
    /\ watcher = NotWatching
    /\ inflight = NoCalls

CallAddDependency ==
    /\ \E p \in Procs :
          /\ Idle(p)
          /\ \E a \in ExtIds, b \in ExtIds :
                Goto(p, [op |-> "add_dependency", pc |-> "select_tasks",
                         task_id |-> a, depends_on_task_id |-> b,
                         dependency_type |-> "blocks", ok |-> FALSE, ret |-> None])
    /\ UNCHANGED <<tasks, activity, deps, clock, watcher>>

\* SELECT id FROM tasks, twice, and the self-dependency test
SelectTasks ==
    /\ \E p \in Procs :
          /\ At(p, "add_dependency", "select_tasks")
          /\ LET c == inflight[p]
             IN  IF \/ c.task_id \notin TaskIds(Store)
                    \/ c.depends_on_task_id \notin TaskIds(Store)
                    \/ c.task_id = c.depends_on_task_id
                 THEN Goto(p, Returned(c, FALSE, None))
                 ELSE Goto(p, [c EXCEPT !.pc = "select_existing"])
    /\ UNCHANGED <<tasks, activity, deps, clock, watcher>>

\* SELECT id FROM task_dependencies WHERE task_id = ? AND depends_on_task_id = ?
SelectExisting ==
    /\ \E p \in Procs :
          /\ At(p, "add_dependency", "select_existing")
          /\ LET c == inflight[p]
                 existing == {d \in deps : /\ d.task_id = c.task_id
                                             /\ d.depends_on_task_id = c.depends_on_task_id}
             IN  IF existing # {}
                 THEN Goto(p, Returned(c, TRUE, (CHOOSE d \in existing : TRUE).id))
                 ELSE Goto(p, [c EXCEPT !.pc = "insert"])
    /\ UNCHANGED <<tasks, activity, deps, clock, watcher>>

\* INSERT INTO task_dependencies and commit; the id is the primary key, and
\* the sqlite3.Error of a second row with that id is answered with None
InsertDependency ==
    /\ \E p \in Procs :
          /\ At(p, "add_dependency", "insert")
          /\ LET c == inflight[p]
                 dep_id == generate_dependency_id(c.task_id, c.depends_on_task_id)
             IN  IF dep_id \in {d.id : d \in deps}
                 THEN /\ Goto(p, Returned(c, FALSE, None))
                      /\ deps' = deps
                 ELSE /\ Goto(p, Returned(c, TRUE, dep_id))
                      /\ deps' = deps \cup
                            {[id |-> dep_id, task_id |-> c.task_id,
                              depends_on_task_id |-> c.depends_on_task_id,
                              dependency_type |-> c.dependency_type]}
    /\ UNCHANGED <<tasks, activity, clock, watcher>>

CallUpdateTaskStatus ==
    /\ \E p \in Procs :
          /\ Idle(p)
          /\ \E t \in ExtIds, s \in {"in_progress", "done"} :
                Goto(p, [op |-> "update_task_status", pc |-> "select_status",
                         task_id |-> t, status |-> s, old_status |-> NULL,
                         now |-> 0, ok |-> FALSE, ret |-> None])
    /\ UNCHANGED <<tasks, activity, deps, clock, watcher>>

\* SELECT status FROM tasks WHERE id = ?, then now = datetime.now()
SelectStatus ==
    /\ \E p \in Procs :
          /\ At(p, "update_task_status", "select_status")
          /\ LET c == inflight[p]
             IN  IF c.task_id \notin TaskIds(Store)
                 THEN /\ Goto(p, Returned(c, FALSE, None))
                      /\ clock' = clock
                 ELSE \E now \in {clock, clock + 1} :
                         /\ now >= 1
                         /\ now <= MaxClock
                         /\ Goto(p, [c EXCEPT !.pc = "write",
                                              !.old_status = tasks[c.task_id].status,
                                              !.now = now])
                         /\ clock' = now
    /\ UNCHANGED <<tasks, activity, deps, watcher>>

\* UPDATE tasks, INSERT INTO task_activity and commit; a second activity row
\* with the same id is an sqlite3.Error, the UPDATE is rolled back and the
\* answer is False
WriteStatus ==
    /\ \E p \in Procs :
          /\ At(p, "update_task_status", "write")
          /\ LET c == inflight[p]
             IN  IF generate_activity_id(c.task_id, "status_change", c.now) \in ActIds(Store)
                 THEN /\ Goto(p, Returned(c, FALSE, None))
                      /\ UNCHANGED <<tasks, activity>>
                 ELSE /\ tasks' = [tasks EXCEPT ![c.task_id].status = c.status]
                      /\ activity' = Append(activity,
                            ActivityRow(c.task_id, "status_change", None,
                                        c.old_status, c.status, c.now))
                      /\ IF c.status \in {"done", "archived"}
                         THEN Goto(p, [c EXCEPT !.pc = "summarize"])
                         ELSE Goto(p, Returned(c, TRUE, None))
    /\ UNCHANGED <<deps, clock, watcher>>

\* self.summarize_task_activity(task_id, delete_raw=False), then return True
SummarizeOnCompletion ==
    /\ \E p \in Procs :
          /\ At(p, "update_task_status", "summarize")
          /\ LET c == inflight[p]
                 r == summarize_task_activity(Store, c.task_id, FALSE, MinEntries, clock)
             IN  /\ tasks' = r.store.tasks
                 /\ activity' = r.store.activity
                 /\ Goto(p, Returned(c, TRUE, None))
    /\ UNCHANGED <<deps, clock, watcher>>

ProcsNext ==
    \/ CallAddDependency
    \/ SelectTasks
    \/ SelectExisting
    \/ InsertDependency
    \/ CallUpdateTaskStatus
    \/ SelectStatus
    \/ WriteStatus
    \/ SummarizeOnCompletion

SpecProcs == ProcsInit /\ [][ProcsNext]_vars

\* ------------------------------------------------------- database watcher
\* DatabaseWatcher.start of the CLI, one step per statement that reads or
\* writes a file, next to an engine that keeps writing. tasks.db exists.
\* watcher.html is the modification time of the database state the last
\* kanban.html was generated from, 0 while there is none.
st_mtime == clock + 1

WatcherInit ==
    /\ tasks = [t \in ExtIds |-> ProducerTask(t)]
    /\ activity = <<>>
    /\ deps = {}
    /\ clock = 0
    /\ watcher = [pc |-> "initial_sync", last_mtime |-> 0, mtime |-> 0,
                  html |-> 0, failures |-> 0]
    /\ inflight = NoCalls

\* sync_once: export_database reads the tables and kanban.html is written
\* from them, or export_database meets a sqlite3.Error, reports it and
\* returns None, which _sync passes over
SyncOutcomes == {"synced", "none"}

AfterSync(outcome) ==
    IF outcome = "synced" THEN [watcher EXCEPT !.html = st_mtime]
    ELSE [watcher EXCEPT !.failures = @ + 1]

\* self._sync() of the initial sync
InitialSync ==
    /\ watcher.pc = "initial_sync"
    /\ \E outcome \in SyncOutcomes :
          /\ outcome # "synced" => watcher.failures < MaxFailures
          /\ watcher' = [AfterSync(outcome) EXCEPT !.pc = "initial_stat"]
    /\ UNCHANGED <<tasks, activity, deps, clock, inflight>>

\* self.last_mtime = self.db_path.stat().st_mtime
InitialStat ==
    /\ watcher.pc = "initial_stat"
    /\ watcher' = [watcher EXCEPT !.last_mtime = st_mtime, !.pc = "poll"]
    /\ UNCHANGED <<tasks, activity, deps, clock, inflight>>

\* mtime = self.db_path.stat().st_mtime; if mtime > self.last_mtime: ...
\* (otherwise the thread sleeps and polls again)
Poll ==
    /\ watcher.pc = "poll"
    /\ st_mtime > watcher.last_mtime
    /\ watcher' = [watcher EXCEPT !.mtime = st_mtime, !.pc = "sync"]
    /\ UNCHANGED <<tasks, activity, deps, clock, inflight>>

\* self._sync() in the loop; an exception it raises (writing kanban.html)
\* is caught by the loop, which warns, sleeps and polls again
LoopSync ==
    /\ watcher.pc = "sync"
    /\ \E outcome \in SyncOutcomes \cup {"raised"} :
          /\ outcome # "synced" => watcher.failures < MaxFailures
          /\ watcher' = IF outcome = "raised"
                        THEN [watcher EXCEPT !.failures = @ + 1, !.pc = "poll"]
                        ELSE [AfterSync(outcome) EXCEPT !.pc = "record"]
    /\ UNCHANGED <<tasks, activity, deps, clock, inflight>>

\* self.last_mtime = mtime
RecordMtime ==
    /\ watcher.pc = "record"
    /\ watcher' = [watcher EXCEPT !.last_mtime = watcher.mtime, !.pc = "poll"]
    /\ UNCHANGED <<tasks, activity, deps, clock, inflight>>

WatcherStep ==
    \/ InitialSync
    \/ InitialStat
    \/ Poll
    \/ LoopSync
    \/ RecordMtime

WatcherNext ==
    \/ UpdateTaskStatus
    \/ WatcherStep

\* the watcher thread keeps running
SpecWatcher == WatcherInit /\ [][WatcherNext]_vars /\ WF_vars(WatcherStep)

\* ------------------------------------------------- a backlog of three tasks
\* the producer has written three todo tasks under stories of several epics;
\* the session then adds and removes edges and moves tasks on
BacklogIds == {1, 2, 3}

BacklogStories ==
    {<<"s1", "s2", "s0">>, <<"s2", "s0", "s1">>, <<NULL, "s1", "s2">>,
     <<"s3", NULL, "s3">>}

BacklogInit ==
    /\ \E f \in BacklogStories :
          tasks = [t \in BacklogIds |-> [ProducerTask(t) EXCEPT !.story_id = f[t]]]
    /\ activity = <<>>
    /\ deps = {}
    /\ clock = 0
    /\ watcher = NotWatching
    /\ inflight = NoCalls

BacklogUpdateTaskStatus ==
    \E t \in TaskIds(Store), s \in {"done", "in_progress"} :
        Stamped(update_task_status(Store, t, s, NULL, Now))

BacklogAddDependency ==
    \E a \in TaskIds(Store), b \in TaskIds(Store) :
        Unstamped(add_dependency(Store, a, b, "blocks"))

BacklogRemoveDependency ==
    \E a \in TaskIds(Store), b \in TaskIds(Store) :
        Unstamped(remove_dependency(Store, a, b))

BacklogNext ==
    \/ BacklogUpdateTaskStatus
    \/ BacklogAddDependency
    \/ BacklogRemoveDependency

SpecBacklog == BacklogInit /\ [][BacklogNext]_vars

\* ===================================================================== claims
\* the unfinished dependencies of a, read off the rows: an edge from a to a
\* task row whose status is not done
HasUnfinishedDependency(S, a) ==
    \E e \in S.deps :
        /\ e.task_id = a
        /\ \E d \in DOMAIN S.tasks : d = e.depends_on_task_id /\ S.tasks[d].status # "done"

LastRow(S) == S.activity[Len(S.activity)]

\* C1: for every task a, is_task_blocked_by_dependencies(a) holds exactly
\* when some edge leads from a to an existing task that is not done, whatever
\* the edge's type and the non-done status; and once the only unfinished
\* dependency of a is set to done, a is no longer blocked.
C1_BlockedIffUnfinishedDependency ==
    \A a \in TaskIds(Store) :
        /\ is_task_blocked_by_dependencies(Store, a) <=> HasUnfinishedDependency(Store, a)
        /\ \A d \in TaskIds(Store) :
              get_blocking_dependencies(Store, a) = {d} =>
                  LET r == update_task_status(Store, d, "done", NULL, Now)
                  IN  r.ok /\ ~is_task_blocked_by_dependencies(r.store, a)

\* d is blocked by the archived task a over a relates_to edge, while a, which
\* depends on d, is free since d was set to done
C1_Witness ==
    \E a \in TaskIds(Store), d \in TaskIds(Store) :
        /\ a # d
        /\ \E e \in deps : e.task_id = d /\ e.depends_on_task_id = a
                           /\ e.dependency_type = "relates_to"
        /\ \E e \in deps : e.task_id = a /\ e.depends_on_task_id = d
        /\ tasks[a].status = "archived"
        /\ tasks[d].status = "done"
        /\ is_task_blocked_by_dependencies(Store, d)
        /\ ~is_task_blocked_by_dependencies(Store, a)

\* C2: add_dependency(a, b) called twice for distinct existing tasks returns
\* the same id both times and leaves one edge row for (a, b); no store holds
\* two edge rows for one ordered pair.
C2_AddDependencyIdempotent ==
    /\ \A a \in TaskIds(Store), b \in TaskIds(Store), ty1 \in DepTypes, ty2 \in DepTypes :
          a # b =>
              LET r1 == add_dependency(Store, a, b, ty1)
                  r2 == add_dependency(r1.store, a, b, ty2)
              IN  /\ r1.ok /\ r2.ok
                  /\ r1.ret = r2.ret
                  /\ Cardinality({e \in r2.store.deps :
                         e.task_id = a /\ e.depends_on_task_id = b}) = 1
    /\ \A e1 \in deps, e2 \in deps :
          (e1.task_id = e2.task_id /\ e1.depends_on_task_id = e2.depends_on_task_id)
              => e1 = e2

\* the edge (a, b) is in the store and a second call names another type
C2_Witness ==
    \E a \in TaskIds(Store), b \in TaskIds(Store) :
        /\ a # b
        /\ \E e \in deps : e.task_id = a /\ e.depends_on_task_id = b
                           /\ e.dependency_type = "blocks"
        /\ add_dependency(Store, a, b, "relates_to").ok
        /\ add_dependency(Store, a, b, "relates_to").store = Store

\* C3: add_dependency(a, a) returns no id and writes nothing, for an
\* existing and for an unknown a; no store holds a self-loop edge.
C3_NoSelfDependency ==
    /\ \A a \in ArgIds, ty \in DepTypes :
          LET r == add_dependency(Store, a, a, ty)
          IN  ~r.ok /\ r.store = Store
    /\ \A e \in deps : e.task_id # e.depends_on_task_id

\* an existing task with edges of its own, for which the self-edge is refused
C3_Witness ==
    \E a \in TaskIds(Store) :
        /\ \E e \in deps : e.task_id = a
        /\ ~add_dependency(Store, a, a, "blocks").ok

\* C4: add_dependency(a, b) with a or b not an existing task returns no id
\* and leaves the store as it was.
C4_MissingEndpointRejected ==
    \A a \in ArgIds \cup KnownIds, b \in ArgIds \cup KnownIds, ty \in DepTypes :
        (a \notin TaskIds(Store) \/ b \notin TaskIds(Store)) =>
            LET r == add_dependency(Store, a, b, ty)
            IN  ~r.ok /\ r.store = Store

\* the depended-upon task of an edge has been deleted: adding the edge again
\* is refused although its row is still there
C4_Witness ==
    \E e \in deps :
        /\ e.task_id \in TaskIds(Store)
        /\ e.depends_on_task_id \notin TaskIds(Store)
        /\ ~add_dependency(Store, e.task_id, e.depends_on_task_id, "blocks").ok

\* C5: for an existing task t and a reason r, after set_blocker(t, r)
\* get_task(t) shows status blocked and blockers r; after resolve_blocker(t)
\* it shows status in_progress and no blockers.
C5_SetThenResolveBlocker ==
    \A t \in TaskIds(Store), r \in Reasons :
        LET r1 == set_blocker(Store, t, r, Now)
            r2 == resolve_blocker(r1.store, t, Now + 1)
        IN  /\ r1.ok
            /\ get_task(r1.store, t) = t
            /\ r1.store.tasks[t].status = "blocked"
            /\ r1.store.tasks[t].blockers = r
            /\ r2.ok
            /\ get_task(r2.store, t) = t
            /\ r2.store.tasks[t].status = "in_progress"
            /\ r2.store.tasks[t].blockers = NULL

\* the two calls have been made: the log ends with "Blocked: waiting"
\* followed by "Blocker resolved" for a task that is now in progress
C5_Witness ==
    \E t \in TaskIds(Store) :
        /\ Len(activity) >= 2
        /\ activity[Len(activity) - 1].task_id = t
        /\ activity[Len(activity) - 1].description = <<"Blocked: ", "waiting">>
        /\ LastRow(Store).task_id = t
        /\ LastRow(Store).description = <<"Blocker resolved">>
        /\ tasks[t].status = "in_progress"
        /\ tasks[t].blockers = NULL

\* C6: a task's blockers column is non-null only while its status is
\* blocked.
C6_BlockersOnlyWhileBlocked ==
    \A t \in TaskIds(Store) :
        tasks[t].blockers # NULL => tasks[t].status = "blocked"

\* C7: every task whose status is blocked carries a non-empty blockers
\* reason.
C7_BlockedHasReason ==
    \A t \in TaskIds(Store) :
        tasks[t].status = "blocked" => tasks[t].blockers \notin {NULL, ""}

C9_StatusChangeRowRecordsTransition ==
    [][\A t \in DOMAIN tasks \cap DOMAIN tasks' :
          tasks'[t].status # tasks[t].status =>
              /\ Len(activity') = Len(activity) + 1
              /\ SubSeq(activity', 1, Len(activity)) = activity
              /\ activity'[Len(activity')].activity_type = "status_change"
              /\ activity'[Len(activity')].task_id = t
              /\ activity'[Len(activity')].old_value = tasks[t].status
              /\ activity'[Len(activity')].new_value = tasks'[t].status]_vars

InProgress(S) == {t \in DOMAIN S.tasks : S.tasks[t].status = "in_progress"}

\* C10: while some task is in progress get_next_task returns a task in
\* progress, the first in query order, whatever the priorities of the todo
\* tasks; with none in progress it returns the suggested next task, and
\* nothing when there is no suggestion.
C10_NextTaskContinuesWorkInProgress ==
    LET n == get_next_task(Store)
    IN  IF InProgress(Store) # {}
        THEN /\ n \in InProgress(Store)
             /\ \A u \in InProgress(Store) \ {n} : QueryBefore(Store, n, u)
        ELSE /\ n = suggested_next_task(Store)
             /\ n # NoTask =>
                   /\ n \in TaskIds(Store)
                   /\ tasks[n].status = "todo"
             /\ n = NoTask =>
                   \A u \in TaskIds(Store) :
                       tasks[u].status = "todo" => is_task_blocked_by_dependencies(Store, u)

\* a task without priority is in progress while an unblocked P0 task is the
\* suggestion: the task in progress is the answer
C10_Witness ==
    \E n \in InProgress(Store) :
        /\ TaskRank(Store, n) > 0
        /\ suggested_next_task(Store) # NoTask
        /\ TaskRank(Store, suggested_next_task(Store)) = 0
        /\ get_next_task(Store) = n

\* the rank the priority order P0 < P1 < P2 < P3 < no priority gives a task
ClaimRank(S, t) ==
    LET p == EpicPriorityOf(S.tasks[t].story_id)
    IN  CASE p = "P0" -> 0 [] p = "P1" -> 1 [] p = "P2" -> 2 [] p = "P3" -> 3
          [] OTHER -> 4

UnblockedTodo(S) ==
    {t \in DOMAIN S.tasks : S.tasks[t].status = "todo" /\ ~HasUnfinishedDependency(S, t)}

\* C11: the suggested next task is a todo task without unfinished
\* dependencies whose priority rank is minimal among the todo tasks without
\* unfinished dependencies, under P0 < P1 < P2 < P3 < no priority, and there
\* is a suggestion whenever such a task exists; when the unblocked todo
\* tasks are three tasks of priorities P0, P1 and P2 it is the P0 task.
C11_SuggestionIsBestUnblockedTodo ==
    LET n == suggested_next_task(Store)
        U == UnblockedTodo(Store)
    IN  /\ U = {} => n = NoTask
        /\ U # {} =>
              /\ n \in U
              /\ \A u \in U : ClaimRank(Store, n) <= ClaimRank(Store, u)
        /\ (Cardinality(U) = 3 /\ {ClaimRank(Store, u) : u \in U} = {0, 1, 2}) =>
              EpicPriorityOf(tasks[n].story_id) = "P0"

\* three unblocked todo tasks of priorities P0, P1, P2, the P0 task being the
\* one with the largest id
C11_Witness ==
    /\ Cardinality(UnblockedTodo(Store)) = 3
    /\ {ClaimRank(Store, u) : u \in UnblockedTodo(Store)} = {0, 1, 2}
    /\ suggested_next_task(Store) = 3
    /\ ClaimRank(Store, 3) = 0
    /\ deps = {}

Todo(S) == {t \in DOMAIN S.tasks : S.tasks[t].status = "todo"}

UnfinishedDependencies(S, a) ==
    {e.depends_on_task_id : e \in
        {x \in S.deps : /\ x.task_id = a
                         /\ x.depends_on_task_id \in DOMAIN S.tasks
                         /\ S.tasks[x.depends_on_task_id].status # "done"}}

\* C12: in a store whose only todo tasks are A and B, where A has no
\* unfinished dependency and B none other than A, after add_dependency(B, A)
\* the suggested next task is A, and after update_task_status(A, done) it
\* is B.
C12_DependencyOrdersSuggestion ==
    \A A \in TaskIds(Store), B \in TaskIds(Store), ty \in DepTypes :
        (/\ A # B
         /\ Todo(Store) = {A, B}
         /\ UnfinishedDependencies(Store, A) = {}
         /\ UnfinishedDependencies(Store, B) \subseteq {A}) =>
            LET r1 == add_dependency(Store, B, A, ty)
                r2 == update_task_status(r1.store, A, "done", NULL, Now)
            IN  /\ r1.ok
                /\ suggested_next_task(r1.store) = A
                /\ r2.ok
                /\ suggested_next_task(r2.store) = B

\* the scenario has run: B depends on A, A was the last task moved, to done,
\* and B, the one todo task, is suggested
C12_Witness ==
    \E A \in TaskIds(Store), B \in TaskIds(Store) :
        /\ \E e \in deps : e.task_id = B /\ e.depends_on_task_id = A
        /\ tasks[A].status = "done"
        /\ Len(activity) > 0
        /\ LastRow(Store).task_id = A
        /\ LastRow(Store).old_value = "todo"
        /\ LastRow(Store).new_value = "done"
        /\ Todo(Store) = {B}
        /\ suggested_next_task(Store) = B

\* C12 as stated, for every store whose only todo tasks are A and B,
\* whatever the edges it already holds.
C12_AsStated ==
    \A A \in TaskIds(Store), B \in TaskIds(Store), ty \in DepTypes :
        (A # B /\ Todo(Store) = {A, B}) =>
            LET r1 == add_dependency(Store, B, A, ty)
                r2 == update_task_status(r1.store, A, "done", NULL, Now)
            IN  /\ r1.ok
                /\ suggested_next_task(r1.store) = A
                /\ r2.ok
                /\ suggested_next_task(r2.store) = B

\* C13: archive_task(t) on an existing task succeeds, sets the status of t
\* to archived and changes nothing else in the task rows, leaves every
\* dependency edge in place, deletes no activity row and appends one
\* status_change row for t.
C13_ArchiveKeepsRows ==
    \A t \in TaskIds(Store), reason \in Reasons :
        LET r == archive_task(Store, t, reason, Now)
        IN  /\ r.ok
            /\ DOMAIN r.store.tasks = DOMAIN tasks
            /\ r.store.tasks[t].status = "archived"
            /\ r.store.tasks = [tasks EXCEPT ![t].status = "archived"]
            /\ r.store.deps = deps
            /\ Len(r.store.activity) = Len(activity) + 1
            /\ SubSeq(r.store.activity, 1, Len(activity)) = activity
            /\ LastRow(r.store).activity_type = "status_change"
            /\ LastRow(r.store).task_id = t
            /\ LastRow(r.store).new_value = "archived"

\* a task with an edge in each direction and an earlier activity row has
\* just been archived
C13_Witness ==
    \E t \in TaskIds(Store) :
        /\ tasks[t].status = "archived"
        /\ \E e \in deps : e.task_id = t
        /\ \E e \in deps : e.depends_on_task_id = t
        /\ Len(ActivityOf(Store, t)) >= 2
        /\ LastRow(Store).task_id = t
        /\ LastRow(Store).description = <<"Task archived">>

\* what a successful hard delete of t leaves: no task row, no activity row
\* and no edge row of t, and the rows of the other tasks as they were
DeletedCleanly(S, S1, t) ==
    /\ DOMAIN S1.tasks = DOMAIN S.tasks \ {t}
    /\ get_task(S1, t) = NoTask
    /\ \A u \in DOMAIN S1.tasks : S1.tasks[u] = S.tasks[u]
    /\ S1.activity = SelectSeq(S.activity, LAMBDA a : a.task_id # t)
    /\ S1.deps = {d \in S.deps : d.task_id # t}

\* C14: delete_task(t) on an existing task succeeds and leaves no task row,
\* no activity row and no dependency row with task_id = t, the rows of every
\* other task unchanged; delete_task on an id without a task row reports
\* failure.
C14_DeleteRemovesTaskRows ==
    \A t \in ArgIds \cup KnownIds :
        LET r == delete_task(Store, t)
        IN  IF t \in TaskIds(Store)
            THEN r.ok /\ DeletedCleanly(Store, r.store, t)
            ELSE ~r.ok

\* C15: in every reachable state both endpoints of every dependency edge
\* are existing tasks.
C15_EdgeEndpointsExist ==
    \A e \in deps :
        e.task_id \in TaskIds(Store) /\ e.depends_on_task_id \in TaskIds(Store)

MinEntriesArgs == {1, 5, 6}

\* C16: summarize_task_activity(t) on a task with fewer than min_entries
\* activity rows returns nothing and leaves the store as it was; with at
\* least min_entries rows it returns a text and the activity_summary of t is
\* that text afterwards, whatever it was before.
C16_SummaryNeedsMinEntries ==
    \A t \in ArgIds, delete_raw \in BOOLEAN, m \in MinEntriesArgs :
        LET r == summarize_task_activity(Store, t, delete_raw, m, Now)
            n == Len(ActivityOf(Store, t))
        IN  /\ n < m => (~r.ok /\ r.ret = None /\ r.store = Store)
            /\ (n >= m /\ t \in TaskIds(Store)) =>
                  /\ r.ok
                  /\ r.ret # None
                  /\ r.ret[2] = n
                  /\ DOMAIN r.ret[3] = {ActivityOf(Store, t)[i].activity_type : i \in 1..n}
                  /\ r.store.tasks[t].activity_summary = r.ret

\* a task carries a summary that a new summarize call would replace by
\* another text, while the other task has too few rows to be summarized
C16_Witness ==
    \E t \in TaskIds(Store), u \in TaskIds(Store) :
        /\ tasks[t].activity_summary # None
        /\ summarize_task_activity(Store, t, FALSE, MinEntries, Now).ok
        /\ summarize_task_activity(Store, t, FALSE, MinEntries, Now).ret
               # tasks[t].activity_summary
        /\ Len(ActivityOf(Store, u)) > 0
        /\ ~summarize_task_activity(Store, u, FALSE, MinEntries, Now).ok

RowsOf(S, t) == {S.activity[i] : i \in {j \in 1..Len(S.activity) : S.activity[j].task_id = t}}

\* the rows of t that fewer than three rows of t are more recent than
MostRecent3(S, t) ==
    {a \in RowsOf(S, t) :
        Cardinality({b \in RowsOf(S, t) : b.created_at > a.created_at}) < 3}

\* C17: after a successful summarize_task_activity(t, delete_raw = true) the
\* activity rows of t are exactly its three most recent ones by created_at
\* and the rows of the other tasks are as before; with delete_raw = false no
\* activity row is deleted.
C17_PruneKeepsThreeMostRecent ==
    \A t \in ArgIds, m \in MinEntriesArgs :
        LET r1 == summarize_task_activity(Store, t, TRUE, m, Now)
            r0 == summarize_task_activity(Store, t, FALSE, m, Now)
        IN  /\ r1.ok =>
                  /\ RowsOf(r1.store, t) = MostRecent3(Store, t)
                  /\ r1.store.activity =
                         SelectSeq(activity, LAMBDA a :
                             a.task_id # t \/ a \in MostRecent3(Store, t))
            /\ r0.store.activity = activity

\* a task whose summary counts five rows or more has three rows left, the
\* rows of the other task still in place
C17_Witness ==
    \E t \in TaskIds(Store), u \in TaskIds(Store) :
        /\ t # u
        /\ tasks[t].activity_summary # None
        /\ tasks[t].activity_summary[2] >= MinEntries
        /\ Len(ActivityOf(Store, t)) = 3
        /\ Len(ActivityOf(Store, u)) > 0

\* C18: whenever a task with at least five activity rows reaches done or
\* archived, its activity_summary is non-null after that step.
C18_FinishingCompressesActivity ==
    [][\A t \in DOMAIN tasks \cap DOMAIN tasks' :
          (/\ tasks'[t].status \in {"done", "archived"}
           /\ tasks'[t].status # tasks[t].status
           /\ Len(ActivityOf(Store, t)) >= MinEntries) =>
              tasks'[t].activity_summary # None]_vars

DependsOn(S, a) == {e.depends_on_task_id : e \in {d \in S.deps : d.task_id = a}}

C20_ToolsRejectInvalidArguments ==
    /\ \A t \in ArgIds, s \in StatusArgs \ {"todo", "in_progress", "review", "done", "blocked"},
          n \in Notes :
          LET r == tool_update_task_status(Store, t, s, n, Now)
          IN  ~r.ok /\ r.store = Store
    /\ \A t \in ArgIds, p \in (-2..102) \ (0..100), cs \in {NULL, "ctx"} :
          LET r == tool_update_task_progress(Store, t, p, cs)
          IN  ~r.ok /\ r.store = Store
    /\ \A a \in ArgIds, b \in ArgIds, ty \in DepTypeArgs \ {"blocks", "requires", "relates_to"} :
          LET r == tool_add_dependency(Store, a, b, ty)
          IN  ~r.ok /\ r.store = Store

\* valid calls have gone through (a task at 100 percent, another moved on,
\* an edge between them) and the invalid ones on the same tasks are refused
C20_Witness ==
    \E a \in TaskIds(Store), b \in TaskIds(Store) :
        /\ a # b
        /\ tasks[a].progress_percent = <<100>>
        /\ tasks[b].status = "review"
        /\ DependsOn(Store, a) = {b}
        /\ deps # {}
        /\ ~tool_update_task_progress(Store, a, 101, NULL).ok
        /\ ~tool_update_task_status(Store, b, "archived", NULL, Now).ok
        /\ ~tool_add_dependency(Store, b, a, "bogus").ok

\* C21: in every reachable state the progress_percent of every task is null
\* or within 0..100.
C21_ProgressWithinRange ==
    \A t \in TaskIds(Store) :
        \/ tasks[t].progress_percent = None
        \/ (0 <= tasks[t].progress_percent[1] /\ tasks[t].progress_percent[1] <= 100)

\* the timestamps a call may read: one already stored, or the next one
Timestamps == 0..Now

\* a call either succeeded or left the store as it found it
AllOrNothing(r) == r.ok \/ r.store = Store

Collides(t, activity_type, now) == generate_activity_id(t, activity_type, now) \in ActIds(Store)

\* C22: update_task_status, set_blocker, resolve_blocker, archive_task,
\* create_task and update_task each either succeed or leave every row of
\* the store as it was; when the activity insert collides with an existing
\* activity id the call fails and neither the task row change nor the
\* activity row is there afterwards.
C22_WritesAreAllOrNothing ==
    \A now \in Timestamps :
      /\ \A ti \in Titles, st \in Stories :
            LET r == create_task(Store, ti, st, now)
            IN  /\ AllOrNothing(r)
                /\ r.ok => ~Collides(r.ret, "created", now)
      /\ \A t \in ArgIds :
        /\ \A s \in {"in_progress", "done"}, n \in Notes :
              LET r == update_task_status(Store, t, s, n, now)
              IN  /\ AllOrNothing(r)
                  /\ (t \in TaskIds(Store) /\ Collides(t, "status_change", now)) => ~r.ok
        /\ \A reason \in Reasons :
              LET rs == set_blocker(Store, t, reason, now)
                  ra == archive_task(Store, t, reason, now)
              IN  /\ AllOrNothing(rs)
                  /\ AllOrNothing(ra)
                  /\ (t \in TaskIds(Store) /\ Collides(t, "status_change", now)) =>
                        ~rs.ok /\ ~ra.ok
        /\ LET r == resolve_blocker(Store, t, now)
           IN  /\ AllOrNothing(r)
               /\ Collides(t, "status_change", now) => ~r.ok
        /\ \A u \in UpdateArgs :
              LET r == update_task(Store, t, u.title, u.description, u.task_type,
                                   u.estimate_hours, now)
              IN  /\ AllOrNothing(r)
                  /\ Collides(t, "updated", now) => ~r.ok

\* a task has a status_change row and an updated row with the latest
\* timestamp: a status update and a field update reading that timestamp
\* again both fail
C22_Witness ==
    \E t \in TaskIds(Store) :
        /\ clock > 0
        /\ Collides(t, "status_change", clock - 1)
        /\ Collides(t, "updated", clock)
        /\ tasks[t].status # "done"
        /\ ~update_task_status(Store, t, "done", NULL, clock - 1).ok
        /\ ~update_task(Store, t, "C", NULL, NULL, None, clock).ok

TitleArgs == {NULL, "", "B"}
DescriptionArgs == {NULL, "d"}
TaskTypeArgs == {NULL, "bug"}
EstimateArgs == {None, <<0>>, <<2>>}

\* C23: update_task on an existing task t succeeds; each of title,
\* description, task_type and estimate_hours of t has the supplied value if
\* one was supplied and its old value otherwise; every other field of t,
\* every other task and every dependency edge is unchanged; with no field
\* supplied the store is left as it was.
C23_UpdateTaskChangesSuppliedFieldsOnly ==
    \A t \in TaskIds(Store), ti \in TitleArgs, de \in DescriptionArgs,
       ty \in TaskTypeArgs, es \in EstimateArgs :
        LET r == update_task(Store, t, ti, de, ty, es, Now)
            new == r.store.tasks[t]
        IN  /\ r.ok
            /\ DOMAIN r.store.tasks = DOMAIN tasks
            /\ new.title = (IF ti # NULL THEN ti ELSE tasks[t].title)
            /\ new.description = (IF de # NULL THEN de ELSE tasks[t].description)
            /\ new.task_type = (IF ty # NULL THEN ty ELSE tasks[t].task_type)
            /\ new.estimate_hours = (IF es # None THEN es ELSE tasks[t].estimate_hours)
            /\ new.status = tasks[t].status
            /\ new.blockers = tasks[t].blockers
            /\ new.progress_percent = tasks[t].progress_percent
            /\ new.handoff_notes = tasks[t].handoff_notes
            /\ new.story_id = tasks[t].story_id
            /\ new.activity_summary = tasks[t].activity_summary
            /\ new.context_summary = tasks[t].context_summary
            /\ \A u \in TaskIds(Store) \ {t} : r.store.tasks[u] = tasks[u]
            /\ r.store.deps = deps
            /\ (ti = NULL /\ de = NULL /\ ty = NULL /\ es = None) => r.store = Store

\* the title of a task was the last thing updated: it is "B" while the
\* description, type and estimate are the producer's, and the progress and
\* notes set earlier are still there
C23_Witness ==
    \E t \in TaskIds(Store) :
        /\ tasks[t].title = "B"
        /\ tasks[t].description = NULL
        /\ tasks[t].task_type = "feature"
        /\ tasks[t].estimate_hours = None
        /\ tasks[t].progress_percent = <<100>>
        /\ tasks[t].handoff_notes = "n"
        /\ Len(activity) > 0
        /\ LastRow(Store).task_id = t
        /\ LastRow(Store).activity_type = "updated"

\* C24: get_session_context and get_next_task leave every task, activity
\* and dependency row as it was.
C24_QueriesLeaveStoreUnchanged ==
    /\ get_session_context(Store).ok
    /\ get_session_context(Store).store = Store
    /\ get_next_task_call(Store).ok
    /\ get_next_task_call(Store).store = Store

\* a store in which the context has something to say: a task in progress,
\* recent activity of a task that was blocked before, and a suggestion
C24_Witness ==
    LET ctx == get_session_context(Store).ret
    IN  /\ Len(ctx.in_progress_tasks) > 0
        /\ Len(ctx.recent_activity) >= 2
        /\ ctx.recent_activity[2].new_value = "blocked"
        /\ ctx.suggested_next_task # NoTask
        /\ get_next_task_call(Store).ret = ctx.in_progress_tasks[1]

\* C25: every step that creates a task row or changes one appends an
\* activity row for that task.
C25_TaskMutationsAreLogged ==
    [][\A t \in DOMAIN tasks' :
          (t \notin DOMAIN tasks \/ tasks'[t] # tasks[t]) =>
              /\ Len(activity') > Len(activity)
              /\ \E i \in (Len(activity) + 1)..Len(activity') : activity'[i].task_id = t]_vars

\* the rows a call leaves are the rows before it, untouched and in place,
\* followed by the rows it wrote
Appends(r) ==
    LET after == r.store.activity
    IN  /\ Len(after) >= Len(activity)
        /\ SubSeq(after, 1, Len(activity)) = activity

\* the rows a call leaves are rows that were there before it, untouched and
\* in their order
OnlyDeletes(r) ==
    LET after == r.store.activity
        left == {after[i] : i \in 1..Len(after)}
    IN  after = SelectSeq(activity, LAMBDA a : a \in left)

\* C26: no operation changes or removes an activity row that exists, except
\* that summarize_task_activity with delete_raw = true and delete_task remove
\* rows (and these two change none of the rows they leave).
C26_ActivityIsAppendOnly ==
    /\ Appends(create_task(Store, "A", NULL, Now))
    /\ get_session_context(Store).store.activity = activity
    /\ \A t \in ArgIds :
        /\ \A s \in {"in_progress", "done"} :
               Appends(update_task_status(Store, t, s, NULL, Now))
        /\ Appends(set_blocker(Store, t, "waiting", Now))
        /\ Appends(resolve_blocker(Store, t, Now))
        /\ Appends(archive_task(Store, t, "waiting", Now))
        /\ Appends(add_task_activity(Store, t, "note", "text", Now))
        /\ Appends(update_task(Store, t, "B", NULL, NULL, None, Now))
        /\ set_handoff_notes(Store, t, "n").store.activity = activity
        /\ update_task_progress(Store, t, 100, "c").store.activity = activity
        /\ summarize_task_activity(Store, t, FALSE, MinEntries, Now).store.activity = activity
        /\ \A u \in ArgIds :
               /\ add_dependency(Store, t, u, "blocks").store.activity = activity
               /\ remove_dependency(Store, t, u).store.activity = activity
        /\ OnlyDeletes(summarize_task_activity(Store, t, TRUE, MinEntries, Now))
        /\ OnlyDeletes(delete_task(Store, t))

\* a pruned history of three rows next to the rows of another task: finishing
\* the first task appends to them, deleting the other removes its rows
C26_Witness ==
    \E t \in TaskIds(Store), u \in TaskIds(Store) :
        /\ t # u
        /\ tasks[t].activity_summary # None
        /\ Len(ActivityOf(Store, t)) = KeepRecent
        /\ Len(update_task_status(Store, t, "done", NULL, Now).store.activity)
               = Len(activity) + 1
        /\ Len(delete_task(Store, u).store.activity) < Len(activity)

\* C27: create_task returns the base id when it is unused and else the
\* base id with the first unused suffix of 1, 2, ...; the id it returns was
\* not in use and the existing task rows stay as they are; it fails, writing
\* nothing, only when the base id and each of its 100 suffixes is in use.
C27_CollisionTriesHundredSuffixes ==
    LET r == create_task(Store, "A", NULL, clock)
        InUse(k) == WithSuffix(CollideBase, k) \in TaskIds(Store)
    IN  /\ r.ok =>
              /\ r.ret \notin TaskIds(Store)
              /\ \E k \in 0..RetryLimit :
                     /\ r.ret = WithSuffix(CollideBase, k)
                     /\ \A j \in 0..(k - 1) : InUse(j)
              /\ TaskIds(r.store) = TaskIds(Store) \cup {r.ret}
              /\ \A t \in TaskIds(Store) : r.store.tasks[t] = tasks[t]
        /\ ~r.ok =>
              /\ r.store = Store
              /\ \A k \in 0..RetryLimit : InUse(k)

\* C28: a successful create_task adds one task row, with status todo, null
\* blockers and an id no task had, and one activity row of type created for
\* it; every other task, activity and dependency row is as before.
C28_CreateTaskAddsOneTodoTask ==
    \A ti \in Titles, st \in Stories, now \in Timestamps :
        LET r == create_task(Store, ti, st, now)
            n == Len(activity)
        IN  r.ok =>
              /\ r.ret \notin TaskIds(Store)
              /\ TaskIds(r.store) = TaskIds(Store) \cup {r.ret}
              /\ r.store.tasks[r.ret].status = "todo"
              /\ r.store.tasks[r.ret].blockers = NULL
              /\ \A t \in TaskIds(Store) : r.store.tasks[t] = tasks[t]
              /\ Len(r.store.activity) = n + 1
              /\ SubSeq(r.store.activity, 1, n) = activity
              /\ r.store.activity[n + 1].task_id = r.ret
              /\ r.store.activity[n + 1].activity_type = "created"
              /\ r.store.deps = deps

\* a task just created next to a task in progress; a second creation at the
\* same timestamp takes the first suffix
C28_Witness ==
    /\ Len(activity) > 1
    /\ LastRow(Store).activity_type = "created"
    /\ LastRow(Store).task_id \in TaskIds(Store)
    /\ tasks[LastRow(Store).task_id].status = "todo"
    /\ \E u \in TaskIds(Store) : tasks[u].status = "in_progress"
    /\ LET t == LastRow(Store).task_id
           r == create_task(Store, "A", tasks[t].story_id, LastRow(Store).created_at)
       IN  r.ok /\ r.ret = WithSuffix(t, 1)

TitleInputs == {"A", "A|"}
StoryInputs == {NULL, "", "s0", "|s0"}

\* C29: generate_task_id gives one id for one (title, story, timestamp) and
\* different ids for different ones; the id of an edge is a function of its
\* two task ids alone, so that an edge removed and added again, whatever its
\* type, gets the id it had.
C29_IdsFollowInputs ==
    /\ \A ti1 \in TitleInputs, ti2 \in TitleInputs,
          st1 \in StoryInputs, st2 \in StoryInputs,
          ts1 \in Timestamps, ts2 \in Timestamps :
           (generate_task_id(ti1, st1, ts1) = generate_task_id(ti2, st2, ts2))
               <=> (<<ti1, st1, ts1>> = <<ti2, st2, ts2>>)
    /\ \A t \in ArgIds, u \in ArgIds :
           LET r0 == add_dependency(Store, t, u, "blocks")
               r1 == remove_dependency(r0.store, t, u)
               r2 == add_dependency(r1.store, t, u, "requires")
           IN  r0.ok =>
                 /\ r1.ok /\ r2.ok
                 /\ r0.ret = generate_dependency_id(t, u)
                 /\ r2.ret = r0.ret

\* a and b depend on each other
Cycle(S, a, b) == b \in DependsOn(S, a) /\ a \in DependsOn(S, b)

\* C30: for distinct existing tasks a and b, add_dependency(a, b) and then
\* add_dependency(b, a) both succeed and leave the two edges; and in every
\* state where a and b depend on each other and neither is done, both are
\* blocked by dependencies and neither is the suggested next task.
C30_CyclesAreAccepted ==
    \A a \in TaskIds(Store) : \A b \in TaskIds(Store) \ {a} :
        /\ LET r1 == add_dependency(Store, a, b, "blocks")
               r2 == add_dependency(r1.store, b, a, "blocks")
           IN  r1.ok /\ r2.ok /\ Cycle(r2.store, a, b)
        /\ (/\ Cycle(Store, a, b)
            /\ tasks[a].status # "done"
            /\ tasks[b].status # "done") =>
               /\ is_task_blocked_by_dependencies(Store, a)
               /\ is_task_blocked_by_dependencies(Store, b)
               /\ suggested_next_task(Store) \notin {a, b}

\* two todo tasks that depend on each other, one of them of the best
\* priority in the backlog, while a third task is the one suggested
C30_Witness ==
    \E a \in TaskIds(Store), b \in TaskIds(Store), c \in TaskIds(Store) :
        /\ a # b /\ c \notin {a, b}
        /\ Cycle(Store, a, b)
        /\ tasks[a].status = "todo" /\ tasks[b].status = "todo"
        /\ TaskRank(Store, a) < TaskRank(Store, c)
        /\ suggested_next_task(Store) = c

\* C31: get_project_status reports as total_tasks the number of task rows,
\* and its counts of done, in_progress, review, blocked and todo tasks are
\* the numbers of rows of these statuses, whatever the statuses in the store.
C31_StatusCountsEveryTask ==
    LET st == get_project_status(Store)
    IN  /\ st.total_tasks = Cardinality(TaskIds(Store))
        /\ st.done_tasks = StatusCount(Store, "done")
        /\ st.in_progress_tasks = StatusCount(Store, "in_progress")
        /\ st.review_tasks = StatusCount(Store, "review")
        /\ st.blocked_tasks = StatusCount(Store, "blocked")
        /\ st.todo_tasks = StatusCount(Store, "todo")

\* C32: while the watcher runs, every committed modification of tasks.db is
\* eventually followed by a kanban.html generated from a database state that
\* includes it.
C32_EveryModificationReachesHtml ==
    \A v \in 1..MaxClock : (clock = v) ~> (watcher.html >= v + 1)

\* the rows of the tasks other than t, in their order
RowsOfOthers(S, t) == SelectSeq(S.activity, LAMBDA a : a.task_id # t)

\* C33: summarize_task_activity(t) changes no column of a task other than
\* the activity_summary of t, no dependency edge and no activity row of
\* another task; the activity rows of t it leaves were there before, and
\* without delete_raw all of them are left.
C33_SummarizeTouchesSummaryOnly ==
    \A t \in ArgIds, delete_raw \in BOOLEAN :
        LET S == add_dependency(Store, 1, 2, "blocks").store
            r == summarize_task_activity(S, t, delete_raw, MinEntries, Now)
            S1 == r.store
        IN  /\ S1.deps = S.deps
            /\ TaskIds(S1) = TaskIds(S)
            /\ \A u \in TaskIds(S) :
                   S1.tasks[u] = IF u = t
                                 THEN [S.tasks[u] EXCEPT !.activity_summary =
                                                            S1.tasks[u].activity_summary]
                                 ELSE S.tasks[u]
            /\ RowsOfOthers(S1, t) = RowsOfOthers(S, t)
            /\ RowsOf(S1, t) \subseteq RowsOf(S, t)
            /\ ~delete_raw => S1.activity = S.activity

\* a task in review whose history was summarized and pruned to three rows,
\* next to a task that still has its row
C33_Witness ==
    \E t \in TaskIds(Store), u \in TaskIds(Store) :
        /\ t # u
        /\ tasks[t].status = "review"
        /\ tasks[t].activity_summary # None
        /\ tasks[u].activity_summary = None
        /\ Len(ActivityOf(Store, t)) = KeepRecent
        /\ Len(ActivityOf(Store, u)) > 0

\* the call failed and wrote nothing
Refused(r) == ~r.ok /\ r.store = Store

\* C34: every mutating operation called with an id that has no task row
\* fails and writes nothing, and every activity row of the store belongs to
\* a task of the store.
C34_UnknownTaskRefused ==
    /\ \A t \in ArgIds \ TaskIds(Store) :
          /\ Refused(update_task_status(Store, t, "done", NULL, Now))
          /\ Refused(set_blocker(Store, t, "waiting", Now))
          /\ Refused(resolve_blocker(Store, t, Now))
          /\ Refused(archive_task(Store, t, "", Now))
          /\ Refused(update_task(Store, t, "B", NULL, NULL, None, Now))
          /\ Refused(add_task_activity(Store, t, "note", "text", Now))
          /\ Refused(set_handoff_notes(Store, t, "n"))
          /\ Refused(update_task_progress(Store, t, 100, "c"))
          /\ \A delete_raw \in BOOLEAN :
                Refused(summarize_task_activity(Store, t, delete_raw, MinEntries, Now))
    /\ \A i \in 1..Len(activity) : activity[i].task_id \in TaskIds(Store)

\* C35: whenever some todo task is not blocked by dependencies there is a
\* suggested next task, and no todo task of the store that is not blocked by
\* dependencies has a strictly better priority rank than it.
C35_SuggestionBestInWholeStore ==
    LET n == suggested_next_task(Store)
        U == UnblockedTodo(Store)
    IN  U # {} =>
          /\ n # NoTask
          /\ \A u \in U : ~(ClaimRank(Store, u) < ClaimRank(Store, n))

\* C36: resolve_blocker called on a task whose status is not blocked leaves
\* the status of that task as it is.
C36_ResolveOnlyUnblocks ==
    \A t \in TaskIds(Store) :
        tasks[t].status # "blocked" =>
            resolve_blocker(Store, t, Now).store.tasks[t].status = tasks[t].status

\* C37: get_task(id) returns the task exactly when a row with that id
\* exists, however many rows the store holds, so get_next_task returns a
\* task whenever some task is in progress or there is a suggested next task.
C37_GetTaskFindsEveryRow ==
    /\ \A t \in LargeArgs \cup {LastId + 1} :
          (get_task(Store, t) = t) <=> (t \in TaskIds(Store))
    /\ (InProgress(Store) # {} \/ suggested_next_task(Store) # NoTask)
          => get_next_task(Store) # NoTask

\* C38: when two processes have each called add_dependency(a, b) for the
\* same pair of distinct existing tasks and both calls have returned, the
\* store holds exactly one edge (a, b) and both calls returned its id.
C38_ConcurrentAddDependencyOneEdge ==
    \A p \in DOMAIN inflight, q \in DOMAIN inflight :
        LET c == inflight[p]
            e == inflight[q]
            edges == {d \in deps : /\ d.task_id = c.task_id
                                    /\ d.depends_on_task_id = c.depends_on_task_id}
        IN  (/\ p # q
             /\ c.op = "add_dependency" /\ e.op = "add_dependency"
             /\ c.pc = "returned" /\ e.pc = "returned"
             /\ c.task_id = e.task_id
             /\ c.depends_on_task_id = e.depends_on_task_id
             /\ c.task_id # c.depends_on_task_id)
            => /\ Cardinality(edges) = 1
               /\ \A d \in edges : c.ret = d.id /\ e.ret = d.id

StatusChanges(t) ==
    SelectSeq(activity, LAMBDA a : a.task_id = t /\ a.activity_type = "status_change")

\* C39: whatever the interleaving of two processes calling update_task_status,
\* the status_change rows of a task chain: the old_value of the first is the
\* status the task started with and the old_value of each later row is the
\* new_value of the row before it.
C39_ConcurrentStatusChangesChain ==
    \A t \in TaskIds(Store) :
        LET rows == StatusChanges(t)
        IN  \A i \in 1..Len(rows) :
                rows[i].old_value =
                    IF i = 1 THEN ProducerTask(t).status ELSE rows[i - 1].new_value

====
